---- MODULE Spec2Model ----
(***************************************************************************)
(* A model of the syntree arena: the builder protocol that appends slots   *)
(* and wires their links, the frozen Tree it produces, the Node navigation *)
(* primitives, find_preceding, node_with_range, the Siblings / Children /   *)
(* Ancestors / Walk / WalkEvents iterators and the rendering of a tree.    *)
(*                                                                         *)
(* A Node is modelled by the index of the slot it borrows; an absent       *)
(* Option / NonMax reference is the value None.                            *)
(***************************************************************************)
EXTENDS Integers, Sequences, FiniteSets, TLC

\* ------------------------------------------------------------------ bounds
MaxSlots == 4
MaxPos == 1
\* The largest cursor of the trees node_with_range is asked about.
MaxEnd == 2

\* --------------------------------------------------------------- constants
None == -1
SizeOfLinks == 8
BasePtr == 4096
\* usize::MAX, at the narrowest pointer width Rust has a target for.
UsizeMax == 65535

Values == {"v"}

Node == "Node"
Token == "Token"

VARIABLES
    arena,      \* the slot table, a function 0..N-1 -> Links
    parents,    \* the stack of open frames, innermost last
    sibling,    \* the last slot appended at the current level, or None
    cursor,     \* the builder's write cursor
    phase,      \* "building" | "built"
    treeFirst,  \* head of the root chain of the built Tree
    treeLast,   \* tail of the root chain of the built Tree
    lastOp,     \* the last operation called
    result,     \* its outcome: "ok" | "Unbalanced"
    opened,     \* the Ids open_node returned, in call order
    it,         \* the iterator under way
    out,        \* the items it has yielded so far
    found,      \* the last find_preceding call: its node, predicate and result
    pr,         \* the print call under way: its event cursor, depth and lines
    rq          \* the last node_with_range call: its range and result

vars == <<arena, parents, sibling, cursor, phase, treeFirst, treeLast,
          lastOp, result, opened, it, out, found, pr, rq>>

\* -------------------------------------------------------------- span model
Span(s, e) == [start |-> s, end |-> e]

point(p) == Span(p, p)

TokenSpans == {sp \in [start : 0..MaxPos, end : 0..MaxPos] : sp.start <= sp.end}

Min(S) == CHOOSE x \in S : \A y \in S : x <= y

Max(S) == CHOOSE x \in S : \A y \in S : x >= y

\* ------------------------------------------------------------------- arena
Size(a) == Cardinality(DOMAIN a)

Ids == DOMAIN arena

\* An append that puts the new slot in front and shifts the others.
Push_as(a, links) == [i \in 0..Size(a) |-> IF i = 0 THEN links ELSE a[i - 1]]

Push(a, links) == [i \in 0..Size(a) |-> IF i < Size(a) THEN a[i] ELSE links]

NoIter == [kind |-> "none", links |-> None, last |-> None, src |-> None]

NoFind == [node |-> None, pred |-> {}, ret |-> None]

NoPrint == [status |-> "none"]

NoRange == [status |-> "none"]

Init ==
    /\ arena = <<>>
    /\ parents = <<>>
    /\ sibling = None
    /\ cursor = 0
    /\ phase = "building"
    /\ treeFirst = None
    /\ treeLast = None
    /\ lastOp = "new"
    /\ result = "ok"
    /\ opened = <<>>
    /\ it = NoIter
    /\ out = <<>>
    /\ found = NoFind
    /\ pr = NoPrint
    /\ rq = NoRange

\* ----------------------------------------------------------------- builder
Top(stack) == IF stack = <<>> THEN None ELSE stack[Len(stack)]

Pop(stack) == SubSeq(stack, 1, Len(stack) - 1)

NewLinks(v, k, sp, par, prv) ==
    [data |-> v, kind |-> k, span |-> sp, parent |-> par, prev |-> prv,
     next |-> None, first |-> None, last |-> None]

\* The linking rule shared by open_node and token: the new slot becomes the
\* next sibling of whatever was last appended at the current level and the
\* last (and, when it is the only one, first) child of the open frame.
insert(a, v, k, sp, par, prv) ==
    LET new == Size(a)
        a1 == Push(a, NewLinks(v, k, sp, par, prv))
        a2 == IF prv = None THEN a1 ELSE [a1 EXCEPT ![prv].next = new]
    IN  IF par = None
        THEN a2
        ELSE [a2 EXCEPT ![par].first = IF @ = None THEN new ELSE @,
                        ![par].last = new]

DirectChildren(a, p) == {c \in DOMAIN a : a[c].parent = p}

\* The covering range of the direct children, or a zero-width span at the
\* write cursor when there are none.
close_span(a, head, cur) ==
    LET cs == DirectChildren(a, head)
    IN  IF cs = {}
        THEN point(cur)
        ELSE Span(Min({a[c].span.start : c \in cs}), Max({a[c].span.end : c \in cs}))

OpenNode(v) ==
    /\ phase = "building"
    /\ Size(arena) < MaxSlots
    /\ arena' = insert(arena, v, Node, point(cursor), Top(parents), sibling)
    /\ parents' = Append(parents, Size(arena))
    /\ sibling' = None
    /\ opened' = Append(opened, Size(arena))
    /\ lastOp' = "open_node"
    /\ result' = "ok"
    /\ UNCHANGED <<cursor, phase, treeFirst, treeLast, it, out, found, pr, rq>>

TokenOp(v, sp) ==
    /\ phase = "building"
    /\ Size(arena) < MaxSlots
    /\ arena' = insert(arena, v, Token, sp, Top(parents), sibling)
    /\ sibling' = Size(arena)
    /\ cursor' = sp.end
    /\ lastOp' = "token"
    /\ result' = "ok"
    /\ UNCHANGED <<parents, phase, treeFirst, treeLast, opened, it, out, found, pr, rq>>

\* token() as the tree! literals call it: the span starts at the write
\* cursor and covers len positions.
TokenLen(v, len) == TokenOp(v, Span(cursor, cursor + len))

\* close_node() that rolls the arena back when it fails.
CloseNode_as ==
    /\ phase = "building"
    /\ lastOp' = "close_node"
    /\ IF parents = <<>>
       THEN /\ result' = "Unbalanced"
            /\ arena' = <<>>
            /\ sibling' = None
            /\ UNCHANGED parents
       ELSE LET head == Top(parents)
            IN  /\ arena' = [arena EXCEPT ![head].span = close_span(arena, head, cursor)]
                /\ parents' = Pop(parents)
                /\ sibling' = head
                /\ result' = "ok"
    /\ UNCHANGED <<cursor, phase, treeFirst, treeLast, opened, it, out, found, pr, rq>>

CloseNode ==
    /\ phase = "building"
    /\ lastOp' = "close_node"
    /\ IF parents = <<>>
       THEN /\ result' = "Unbalanced"
            /\ UNCHANGED <<arena, parents, sibling>>
       ELSE LET head == Top(parents)
            IN  /\ arena' = [arena EXCEPT ![head].span = close_span(arena, head, cursor)]
                /\ parents' = Pop(parents)
                /\ sibling' = head
                /\ result' = "ok"
    /\ UNCHANGED <<cursor, phase, treeFirst, treeLast, opened, it, out, found, pr, rq>>

\* build() that returns a tree although frames are still open.
Build_as ==
    /\ phase = "building"
    /\ lastOp' = "build"
    /\ result' = "ok"
    /\ phase' = "built"
    /\ treeFirst' = IF Size(arena) = 0 THEN None ELSE 0
    /\ treeLast' = sibling
    /\ UNCHANGED <<arena, parents, sibling, cursor, opened, it, out, found, pr, rq>>

Build ==
    /\ phase = "building"
    /\ lastOp' = "build"
    /\ IF parents # <<>>
       THEN /\ result' = "Unbalanced"
            /\ UNCHANGED <<phase, treeFirst, treeLast>>
       ELSE /\ result' = "ok"
            /\ phase' = "built"
            /\ treeFirst' = IF Size(arena) = 0 THEN None ELSE 0
            /\ treeLast' = sibling
    /\ UNCHANGED <<arena, parents, sibling, cursor, opened, it, out, found, pr, rq>>

\* --------------------------------------------------------- node navigation
\* Slice::get: the slot at an index, when the index is within bounds.
node_at(i) == IF i \in DOMAIN arena THEN i ELSE None

\* Node::id without the division by the slot size.
id_as(n) ==
    LET current == BasePtr + n * SizeOfLinks
        base == BasePtr
    IN  current - base

\* The address arithmetic of Node::id: the slot's address minus the address
\* of the slice, in units of one slot.
id(n) ==
    LET current == BasePtr + n * SizeOfLinks
        base == BasePtr
    IN  (current - base) \div SizeOfLinks

value(n) == arena[n].data

kind(n) == arena[n].kind

\* Node::span giving an empty span at the start.
span_as(n) == point(arena[n].span.start)

span(n) == arena[n].span

\* Node::is_empty testing the kind instead of the first link.
is_empty_as(n) == arena[n].kind = Token

is_empty(n) == arena[n].first = None

\* Node::parent reading the prev link.
parent_as(n) == IF arena[n].prev = None THEN None ELSE node_at(arena[n].prev)

parent(n) == IF arena[n].parent = None THEN None ELSE node_at(arena[n].parent)

\* Node::prev reading the parent link.
prev_as(n) == IF arena[n].parent = None THEN None ELSE node_at(arena[n].parent)

prev(n) == IF arena[n].prev = None THEN None ELSE node_at(arena[n].prev)

\* Node::next reading the last link.
next_as(n) == IF arena[n].last = None THEN None ELSE node_at(arena[n].last)

next(n) == IF arena[n].next = None THEN None ELSE node_at(arena[n].next)

\* Node::first reading the last link.
first_as(n) == IF arena[n].last = None THEN None ELSE node_at(arena[n].last)

first(n) == IF arena[n].first = None THEN None ELSE node_at(arena[n].first)

\* Node::last reading the first link.
last_as(n) == IF arena[n].first = None THEN None ELSE node_at(arena[n].first)

last(n) == IF arena[n].last = None THEN None ELSE node_at(arena[n].last)

\* ---------------------------------------------------------- find_preceding
\* A predicate is the set of nodes it accepts.
Predicates == SUBSET Ids

RECURSIVE scan_up_as(_, _)
\* Step 1 giving up on a node without a parent before looking at its
\* previous sibling.
scan_up_as(n, P) ==
    IF parent(n) = None
    THEN None
    ELSE LET p == prev(n)
         IN  IF p # None /\ p \in P THEN p ELSE scan_up_as(parent(n), P)

RECURSIVE ReverseScan(_)
\* n and the siblings before it, nearest first.
ReverseScan(n) == IF n = None THEN <<>> ELSE <<n>> \o ReverseScan(prev(n))

RECURSIVE scan_up_probes_as(_, _)
\* Step 1 probing every earlier sibling of a level, nearest first.
scan_up_probes_as(n, P) ==
    LET back == ReverseScan(prev(n))
        hits == {i \in DOMAIN back : back[i] \in P}
    IN  IF hits # {}
        THEN SubSeq(back, 1, Min(hits))
        ELSE IF parent(n) = None THEN back ELSE back \o scan_up_probes_as(parent(n), P)

RECURSIVE scan_up_probes(_, _)
\* The nodes step 1 applies the predicate to, in the order of the calls.
scan_up_probes(n, P) ==
    LET p == prev(n)
    IN  IF p = None
        THEN IF parent(n) = None THEN <<>> ELSE scan_up_probes(parent(n), P)
        ELSE IF p \in P
             THEN <<p>>
             ELSE IF parent(n) = None THEN <<p>> ELSE <<p>> \o scan_up_probes(parent(n), P)

RECURSIVE scan_up_self_as(_, _)
\* Step 1 breaking with the node whose previous sibling matched instead of
\* with that sibling.
scan_up_self_as(n, P) ==
    LET p == prev(n)
    IN  IF p # None /\ p \in P
        THEN n
        ELSE IF parent(n) = None THEN None ELSE scan_up_self_as(parent(n), P)

RECURSIVE scan_up(_, _)
\* Step 1: scan upwards until a previous sibling matches.  None stands for
\* the early return of `?`.
scan_up(n, P) ==
    LET p == prev(n)
    IN  IF p = None
        THEN IF parent(n) = None THEN None ELSE scan_up(parent(n), P)
        ELSE IF p \in P
             THEN p
             ELSE IF parent(n) = None THEN None ELSE scan_up(parent(n), P)

RECURSIVE scan_last_as(_, _)
\* Step 2 without the predicate test on the last child.
scan_last_as(n, P) ==
    LET l == last(n)
    IN  IF l = None THEN n ELSE scan_last_as(l, P)

RECURSIVE scan_last(_, _)
\* Step 2: follow the last child while it matches the predicate.
scan_last(n, P) ==
    LET l == last(n)
    IN  IF l = None
        THEN n
        ELSE IF l \notin P THEN n ELSE scan_last(l, P)

find_preceding(n, P) ==
    LET m == scan_up(n, P)
    IN  IF m = None THEN None ELSE scan_last(m, P)

FindPreceding(n, P) ==
    /\ phase = "built"
    /\ found = NoFind
    /\ found' = [node |-> n, pred |-> P, ret |-> find_preceding(n, P)]
    /\ lastOp' = "find_preceding"
    /\ UNCHANGED <<arena, parents, sibling, cursor, phase, treeFirst, treeLast, result, opened, it, out, pr, rq>>

\* --------------------------------------------------------------- iterators
\* Siblings::next starting over at slot 0 once it has returned nothing.
Siblings_next_unfused_as(links) ==
    IF links = None
    THEN [ret |-> None, links |-> node_at(0)]
    ELSE [ret |-> links,
          links |-> IF arena[links].next = None THEN None ELSE node_at(arena[links].next)]

\* Siblings::next moving the cursor along the first link instead of next.
Siblings_next_as(links) ==
    IF links = None
    THEN [ret |-> None, links |-> None]
    ELSE [ret |-> links,
          links |-> IF arena[links].first = None THEN None ELSE node_at(arena[links].first)]

\* One call of Siblings::next on a cursor: the item returned and the cursor
\* left behind.
Siblings_next(links) ==
    IF links = None
    THEN [ret |-> None, links |-> None]
    ELSE [ret |-> links,
          links |-> IF arena[links].next = None THEN None ELSE node_at(arena[links].next)]

RECURSIVE Siblings_next_node_as(_)
\* Siblings::next_node returning on the first token instead.
Siblings_next_node_as(links) ==
    LET step == Siblings_next(links)
    IN  IF step.ret = None
        THEN step
        ELSE IF kind(step.ret) = Token THEN step ELSE Siblings_next_node_as(step.links)

RECURSIVE Siblings_next_node(_)
\* One call of Siblings::next_node: calls of next until one returns nothing
\* or a node of Kind::Node.
Siblings_next_node(links) ==
    LET step == Siblings_next(links)
    IN  IF step.ret = None
        THEN step
        ELSE IF kind(step.ret) = Node THEN step ELSE Siblings_next_node(step.links)

RECURSIVE SiblingsRun(_)
\* The items Siblings yields from a cursor, run to exhaustion.
SiblingsRun(links) ==
    LET step == Siblings_next(links)
    IN  IF step.ret = None THEN <<>> ELSE <<step.ret>> \o SiblingsRun(step.links)

\* What SkipTokens passes of a Siblings iterator at a cursor: the items of
\* Kind::Node.
SkipTokensRun(links) == SelectSeq(SiblingsRun(links), LAMBDA n : kind(n) = Node)

\* One call of Children::next: like Siblings::next, but the cursor stops
\* after the parent's last child.
Children_next(links, lst) ==
    IF links = None \/ node_at(links) = None
    THEN [ret |-> None, links |-> None]
    ELSE [ret |-> links,
          links |-> IF links = lst THEN None ELSE arena[links].next]

\* One call of Ancestors::next: yields the cursor and moves to its parent.
Ancestors_next(links) ==
    IF links = None
    THEN [ret |-> None, links |-> None]
    ELSE [ret |-> links, links |-> parent(links)]

\* Siblings::default(): no tree and no cursor.
SiblingsDefault ==
    /\ phase = "built"
    /\ it = NoIter
    /\ it' = [kind |-> "siblings", links |-> None, last |-> None, src |-> None]
    /\ out' = <<>>
    /\ lastOp' = "siblings"
    /\ UNCHANGED <<arena, parents, sibling, cursor, phase, treeFirst, treeLast, result, opened, found, pr, rq>>

NodeSiblings(n) ==
    /\ phase = "built"
    /\ it = NoIter
    /\ it' = [kind |-> "siblings", links |-> n, last |-> None, src |-> n]
    /\ out' = <<>>
    /\ lastOp' = "siblings"
    /\ UNCHANGED <<arena, parents, sibling, cursor, phase, treeFirst, treeLast, result, opened, found, pr, rq>>

NodeChildren(n) ==
    /\ phase = "built"
    /\ it = NoIter
    /\ it' = [kind |-> "children", links |-> arena[n].first, last |-> arena[n].last, src |-> n]
    /\ out' = <<>>
    /\ lastOp' = "children"
    /\ UNCHANGED <<arena, parents, sibling, cursor, phase, treeFirst, treeLast, result, opened, found, pr, rq>>

\* Node::ancestors starting at the parent instead of the node itself.
NodeAncestors_as(n) ==
    /\ phase = "built"
    /\ it = NoIter
    /\ it' = [kind |-> "ancestors", links |-> parent(n), last |-> None, src |-> n]
    /\ out' = <<>>
    /\ lastOp' = "ancestors"
    /\ UNCHANGED <<arena, parents, sibling, cursor, phase, treeFirst, treeLast, result, opened, found, pr, rq>>

NodeAncestors(n) ==
    /\ phase = "built"
    /\ it = NoIter
    /\ it' = [kind |-> "ancestors", links |-> n, last |-> None, src |-> n]
    /\ out' = <<>>
    /\ lastOp' = "ancestors"
    /\ UNCHANGED <<arena, parents, sibling, cursor, phase, treeFirst, treeLast, result, opened, found, pr, rq>>

Yield(step) ==
    /\ it' = [it EXCEPT !.links = step.links]
    /\ out' = IF step.ret = None THEN out ELSE Append(out, step.ret)
    /\ lastOp' = "next"
    /\ UNCHANGED <<arena, parents, sibling, cursor, phase, treeFirst, treeLast, result, opened, found, pr, rq>>

\* The iterator, or the node find_preceding returned, goes out of scope.
Drop ==
    /\ it # NoIter \/ found # NoFind
    /\ it' = NoIter
    /\ out' = <<>>
    /\ found' = NoFind
    /\ lastOp' = "drop"
    /\ UNCHANGED <<arena, parents, sibling, cursor, phase, treeFirst, treeLast, result, opened, pr, rq>>

SiblingsNext ==
    /\ it.kind = "siblings"
    /\ Yield(Siblings_next(it.links))

\* A call of next_node on a Siblings iterator; the iterator is from then on
\* one consumed through next_node.
SiblingsNextNode ==
    /\ it.kind \in {"siblings", "siblings.next_node"}
    /\ LET step == Siblings_next_node(it.links)
       IN  /\ it' = [it EXCEPT !.links = step.links, !.kind = "siblings.next_node"]
           /\ out' = IF step.ret = None THEN out ELSE Append(out, step.ret)
    /\ lastOp' = "next_node"
    /\ UNCHANGED <<arena, parents, sibling, cursor, phase, treeFirst, treeLast, result, opened, found, pr, rq>>

ChildrenNext ==
    /\ it.kind = "children"
    /\ Yield(Children_next(it.links, it.last))

AncestorsNext ==
    /\ it.kind = "ancestors"
    /\ Yield(Ancestors_next(it.links))

\* -------------------------------------------------------------------- walk
RECURSIVE Walk_ascend(_, _)
\* The ascent of the step rule: climb one level per unit of depth, up to the
\* first ancestor that has a next sibling; at depth 0 the scope of the walk
\* is left and the walk ends.
Walk_ascend(n, d) ==
    IF d = 0 \/ parent(n) = None
    THEN [links |-> None, depth |-> d]
    ELSE IF next(parent(n)) # None
         THEN [links |-> next(parent(n)), depth |-> d - 1]
         ELSE Walk_ascend(parent(n), d - 1)

\* The step rule of Walk: the first child, else the next sibling, else the
\* ascent.
Walk_step(n, d) ==
    IF first(n) # None
    THEN [links |-> first(n), depth |-> d + 1]
    ELSE IF next(n) # None
         THEN [links |-> next(n), depth |-> d]
         ELSE Walk_ascend(n, d)

\* One call of Walk::next: the node returned, the depth it is at, and the
\* cursor and depth left behind.
Walk_next(links, d) ==
    IF links = None
    THEN [ret |-> None, at |-> d, links |-> None, depth |-> d]
    ELSE [ret |-> links, at |-> d,
          links |-> Walk_step(links, d).links, depth |-> Walk_step(links, d).depth]

\* Node::walk starting at the node itself instead of its first child.
NodeWalk_as(n) ==
    /\ phase = "built"
    /\ it = NoIter
    /\ it' = [kind |-> "walk", links |-> n, last |-> None, src |-> n, depth |-> 0]
    /\ out' = <<>>
    /\ lastOp' = "walk"
    /\ UNCHANGED <<arena, parents, sibling, cursor, phase, treeFirst, treeLast, result, opened, found, pr, rq>>

NodeWalk(n) ==
    /\ phase = "built"
    /\ it = NoIter
    /\ it' = [kind |-> "walk", links |-> arena[n].first, last |-> None, src |-> n, depth |-> 0]
    /\ out' = <<>>
    /\ lastOp' = "walk"
    /\ UNCHANGED <<arena, parents, sibling, cursor, phase, treeFirst, treeLast, result, opened, found, pr, rq>>

WalkNext ==
    /\ it.kind = "walk"
    /\ LET step == Walk_next(it.links, it.depth)
       IN  /\ it' = [it EXCEPT !.links = step.links, !.depth = step.depth]
           /\ out' = IF step.ret = None THEN out ELSE Append(out, step.ret)
    /\ lastOp' = "next"
    /\ UNCHANGED <<arena, parents, sibling, cursor, phase, treeFirst, treeLast, result, opened, found, pr, rq>>

\* ------------------------------------------------------------- walk events
\* The step of WalkEvents from node n reached by `event`: down to the first
\* child unless n was reached on the way up, else on to the next sibling,
\* else up to the parent.
WalkEvents_step(n, event) ==
    IF event # "Up" /\ first(n) # None
    THEN [links |-> first(n), event |-> "First"]
    ELSE IF next(n) # None
         THEN [links |-> next(n), event |-> "Next"]
         ELSE IF parent(n) = None
              THEN [links |-> None, event |-> "Next"]
              ELSE [links |-> parent(n), event |-> "Up"]

\* One call of WalkEvents::next: the (event, node) pair returned and the
\* cursor left behind.
WalkEvents_next(links, event) ==
    IF links = None
    THEN [ret |-> None, event |-> event, links |-> None, then |-> event]
    ELSE [ret |-> links, event |-> event,
          links |-> WalkEvents_step(links, event).links,
          then |-> WalkEvents_step(links, event).event]

\* ------------------------------------------------------------------- print
\* A source text of length L; each character stands for its own position.
Sources == {[i \in 1..L |-> i] : L \in 0..MaxPos}

\* The lookup print passes: |_| None.
NoSource == [given |-> FALSE, text |-> <<>>]

\* source(span): an Option, the empty sequence standing for None.  With a
\* source text it is str::get on the span's range.
source(lookup, sp) ==
    IF lookup.given /\ sp.start <= sp.end /\ sp.end <= Len(lookup.text)
    THEN <<SubSeq(lookup.text, sp.start + 1, sp.end)>>
    ELSE <<>>

checked_sub(d) == IF d = 0 THEN None ELSE d - 1

checked_add(d) == IF d = UsizeMax THEN None ELSE d + 1

\* The depth bookkeeping that leaves First events uncounted.
depth_after_as(event, d) ==
    IF event = "Up" THEN checked_sub(d) ELSE d

\* The depth after an event; None stands for the panic of `expect`.
depth_after(event, d) ==
    IF event = "Up"
    THEN checked_sub(d)
    ELSE IF event = "First" THEN checked_add(d) ELSE d

\* A loop body that renders the Up events too.
skipped_as(event) == FALSE

\* The events the loop body leaves with `continue` before writing a line.
skipped(event) == event = "Up"

\* An indentation of one space per level.
indentation_as(d) == d

\* let n = depth * 2.
indentation(d) == d * 2

\* What follows `data@span` on the line of a node.
suffix(node, lookup) ==
    IF kind(node) = Token
    THEN IF source(lookup, span(node)) # <<>>
         THEN <<"quoted", source(lookup, span(node))[1]>>
         ELSE <<"+">>
    ELSE IF is_empty(node) THEN <<>> ELSE <<>>

\* One writeln! of the loop.
line(d, node, lookup) ==
    [n |-> indentation(d), depth |-> d, node |-> node, data |-> value(node),
     span |-> span(node), suffix |-> suffix(node, lookup)]

\* print_with_lookup up to its loop: depth 0 and tree.walk_events(), which
\* starts at the tree's first root with the event Next.
PrintWithLookup(lookup) ==
    /\ phase = "built"
    /\ pr = NoPrint
    /\ pr' = [status |-> "running", lookup |-> lookup, links |-> treeFirst,
              event |-> "Next", depth |-> 0, lines |-> <<>>, events |-> <<>>]
    /\ lastOp' = "print"
    /\ UNCHANGED <<arena, parents, sibling, cursor, phase, treeFirst, treeLast, result, opened, it, out, found, rq>>

print == PrintWithLookup(NoSource)

PrintWithSource(text) == PrintWithLookup([given |-> TRUE, text |-> text])

\* One iteration of the loop of print_with_lookup, or its return once the
\* event walk is exhausted.
PrintStep ==
    /\ pr.status = "running"
    /\ LET e == WalkEvents_next(pr.links, pr.event)
           d == depth_after(e.event, pr.depth)
           at == [pr EXCEPT !.links = e.links, !.event = e.then,
                            !.events = Append(@, e.event)]
       IN  pr' = IF e.ret = None
                 THEN [pr EXCEPT !.status = "done"]
                 ELSE IF d = None
                      THEN [at EXCEPT !.status = "panic"]
                      ELSE IF skipped(e.event)
                           THEN [at EXCEPT !.depth = d]
                           ELSE [at EXCEPT !.depth = d,
                                           !.lines = Append(@, line(d, e.ret, pr.lookup))]
    /\ lastOp' = "print"
    /\ UNCHANGED <<arena, parents, sibling, cursor, phase, treeFirst, treeLast, result, opened, it, out, found, rq>>

\* --------------------------------------------------------- node_with_range
\* The ranges a caller may ask for.
Ranges == {r \in [start : 0..MaxEnd, end : 0..MaxEnd] : r.start <= r.end}

\* Containment that lets a span take an empty range at its own end.
contains_as(sp, r) == sp.start <= r.start /\ r.end <= sp.end

\* A span contains a range that lies within it and starts at one of its
\* positions: 3..7 contains 3..3, and 0..3 does not.
contains(sp, r) == sp.start <= r.start /\ r.start < sp.end /\ r.end <= sp.end

RECURSIVE first_containing(_, _)
\* The first interior node, from n along next, whose span contains r.
first_containing(n, r) ==
    IF n = None
    THEN None
    ELSE IF kind(n) = Node /\ contains(span(n), r)
         THEN n
         ELSE first_containing(next(n), r)

RECURSIVE descend(_, _)
\* The descent from a containing node n: into its first containing child
\* while there is one.
descend(n, r) ==
    LET c == first_containing(first(n), r)
    IN  IF c = None THEN n ELSE descend(c, r)

node_with_range(r) ==
    LET c == first_containing(treeFirst, r)
    IN  IF c = None THEN None ELSE descend(c, r)

NodeWithRange(r) ==
    /\ phase = "built"
    /\ rq = NoRange
    /\ rq' = [range |-> r, ret |-> node_with_range(r)]
    /\ lastOp' = "node_with_range"
    /\ UNCHANGED <<arena, parents, sibling, cursor, phase, treeFirst, treeLast, result, opened, it, out, found, pr>>

\* The builder protocol up to the frozen tree.
Next ==
    \/ \E v \in Values : OpenNode(v)
    \/ \E v \in Values, sp \in TokenSpans : TokenOp(v, sp)
    \/ CloseNode
    \/ Build

Spec == Init /\ [][Next]_vars

\* The builder driven as the tree! literals drive it, with token spans that
\* follow one another.  Neither the iterators nor find_preceding read a span.
NextLit ==
    \/ \E v \in Values : OpenNode(v)
    \/ \E v \in Values, len \in 0..MaxPos : cursor + len <= MaxPos /\ TokenLen(v, len)
    \/ CloseNode
    \/ Build

\* The builder, then the iterators over the built tree.
NextIter ==
    \/ NextLit
    \/ \E n \in Ids : NodeSiblings(n)
    \/ SiblingsDefault
    \/ \E n \in Ids : NodeChildren(n)
    \/ \E n \in Ids : NodeAncestors(n)
    \/ SiblingsNext
    \/ SiblingsNextNode
    \/ ChildrenNext
    \/ AncestorsNext
    \/ \E n \in Ids : NodeWalk(n)
    \/ WalkNext
    \/ Drop

SpecIter == Init /\ [][NextIter]_vars

\* The builder, then find_preceding on the built tree.
NextFind ==
    \/ NextLit
    \/ \E n \in Ids, P \in Predicates : FindPreceding(n, P)
    \/ Drop

SpecFind == Init /\ [][NextFind]_vars

\* The builder driven by tree! literals up to the cursor MaxEnd, then
\* node_with_range on the built tree.
NextRange ==
    \/ \E v \in Values : OpenNode(v)
    \/ \E v \in Values, len \in 0..MaxEnd : cursor + len <= MaxEnd /\ TokenLen(v, len)
    \/ CloseNode
    \/ Build
    \/ \E r \in Ranges : NodeWithRange(r)

SpecRange == Init /\ [][NextRange]_vars

\* The builder, then the rendering of the built tree.
NextPrint ==
    \/ NextLit
    \/ print
    \/ \E text \in Sources : PrintWithSource(text)
    \/ PrintStep

SpecPrint == Init /\ [][NextPrint]_vars

\* ------------------------------------------------------------- properties
\* The vocabulary of the properties, built on the navigation primitives.
Built == phase = "built"

\* The direct children of p, by their parent link.
Kids(p) == {c \in Ids : parent(c) = p}

RECURSIVE NextChain(_)
\* The slots met from n by following next.
NextChain(n) == IF n = None THEN <<>> ELSE <<n>> \o NextChain(next(n))

RECURSIVE PreOrder(_)
\* n's subtree, then the subtrees of the siblings after n, in document order.
PreOrder(n) == IF n = None THEN <<>> ELSE <<n>> \o PreOrder(first(n)) \o PreOrder(next(n))

Range(seq) == {seq[i] : i \in DOMAIN seq}

IsNode(n) == kind(n) = Node

\* The end of the last token appended before slot n, 0 when there is none.
EndBefore(n) ==
    LET toks == {t \in Ids : t < n /\ kind(t) = Token}
    IN  IF toks = {} THEN 0 ELSE span(Max(toks)).end

\* C1: build() on a balanced sequence succeeds, and in the built tree every
\* interior node with children spans from the least start to the greatest
\* end of its direct children, whatever the order of the token spans.
C1_InteriorSpanCoversChildren ==
    /\ (lastOp = "build" /\ parents = <<>>) => (result = "ok" /\ Built)
    /\ Built =>
         \A n \in Ids :
            (IsNode(n) /\ Kids(n) # {}) =>
               /\ span(n).start = Min({span(c).start : c \in Kids(n)})
               /\ span(n).end = Max({span(c).end : c \in Kids(n)})

\* A built tree holding an interior node whose second child starts before
\* its first child.
C1_Witness ==
    /\ Built
    /\ lastOp = "build"
    /\ \E n \in Ids : \E c, d \in Kids(n) :
          /\ c < d
          /\ span(d).start < span(c).start
          /\ span(n) = Span(span(d).start, span(c).end)

C3_EmptyNodeSpanAtCursor ==
    Built =>
      \A n \in Ids :
         /\ (IsNode(n) /\ Kids(n) = {}) =>
               /\ span(n).start = span(n).end
               /\ span(n) = point(EndBefore(n))
         /\ is_empty(n) <=> (kind(n) = Token \/ (IsNode(n) /\ Kids(n) = {}))

\* A built tree with a childless interior node placed after a token that
\* ends past 0, next to an interior node that has a child.
C3_Witness ==
    /\ Built
    /\ \E n, m \in Ids :
          /\ IsNode(n) /\ is_empty(n) /\ EndBefore(n) > 0
          /\ span(n) = point(EndBefore(n))
          /\ IsNode(m) /\ ~is_empty(m)

\* C4: in a built tree A.next = B exactly when B.prev = A, and slots linked
\* as siblings have the same parent.
C4_SiblingLinksConsistent ==
    Built =>
      \A a, b \in Ids :
         /\ (next(a) = b) <=> (prev(b) = a)
         /\ (next(a) = b) => (parent(a) = parent(b))

\* A built tree with linked siblings below a parent and linked roots.
C4_Witness ==
    /\ Built
    /\ \E a, b \in Ids : next(a) = b /\ prev(b) = a /\ parent(a) # None
    /\ \E a, b \in Ids : next(a) = b /\ parent(a) = None

\* C5: in a built tree, for every interior slot P with children, P.first
\* has no prev, P.last has no next, following next from P.first ends at
\* P.last and visits exactly the slots whose parent is P; a leaf has
\* neither first nor last.
C5_FirstLastBoundChildren ==
    Built =>
      \A p \in Ids :
         /\ (IsNode(p) /\ first(p) # None) =>
               LET chain == NextChain(first(p))
               IN  /\ last(p) # None
                   /\ prev(first(p)) = None
                   /\ next(last(p)) = None
                   /\ chain[Len(chain)] = last(p)
                   /\ Range(chain) = Kids(p)
                   /\ Cardinality(Range(chain)) = Len(chain)
         /\ kind(p) = Token => (first(p) = None /\ last(p) = None)

\* A built tree with an interior slot of at least two children, one of
\* them a leaf.
C5_Witness ==
    /\ Built
    /\ \E p \in Ids :
          /\ first(p) # None
          /\ last(p) # first(p)
          /\ \E c \in Kids(p) : kind(c) = Token

\* The roots: the slots met from the tree's first root by following next.
Roots == Range(NextChain(treeFirst))

\* C6: in a built tree parent() is absent exactly for the slots reachable
\* from the tree's first root by next.
C6_ParentAbsentIffRoot ==
    Built => \A n \in Ids : (parent(n) = None) <=> (n \in Roots)

\* A built tree with at least two roots and a slot that is not a root.
C6_Witness ==
    /\ Built
    /\ Cardinality(Roots) >= 2
    /\ \E n \in Ids : parent(n) # None

\* The interior slots of the forest in document order.
InteriorInOrder == SelectSeq(PreOrder(treeFirst), IsNode)

\* C7: the Ids open_node returned are, in call order, the id() of the
\* interior slots of the built tree in document order, and no two slots
\* have the same id.
C7_OpenIdIsNodeId ==
    Built =>
      /\ Len(opened) = Len(InteriorInOrder)
      /\ \A k \in DOMAIN opened : opened[k] = id(InteriorInOrder[k])
      /\ \A a, b \in Ids : a # b => id(a) # id(b)

\* A built tree where a node was opened after a token and followed by more
\* slots.
C7_Witness ==
    /\ Built
    /\ \E k \in DOMAIN opened :
          /\ opened[k] >= 2
          /\ opened[k] < Size(arena) - 1
          /\ kind(0) = Token
          /\ id(InteriorInOrder[k]) = opened[k]

RECURSIVE ParentChain(_)
\* n, parent(n), parent(parent(n)), ... up to a root.
ParentChain(n) == IF n = None THEN <<>> ELSE <<n>> \o ParentChain(parent(n))

RECURSIVE LastChain(_)
\* n, last(n), last(last(n)), ... down to a slot without children.
LastChain(n) == IF n = None THEN <<>> ELSE <<n>> \o LastChain(last(n))

\* The levels of n's parent chain whose previous sibling exists and is
\* accepted by P.
MatchingLevels(n, P) ==
    {k \in DOMAIN ParentChain(n) :
        prev(ParentChain(n)[k]) # None /\ prev(ParentChain(n)[k]) \in P}

\* C8: when find_preceding(P) on N returns a node, that node is reached
\* from the previous sibling of the nearest node of N's parent chain whose
\* previous sibling satisfies P, by following last-child links for as long
\* as the last child satisfies P; it satisfies P and has no last child or
\* one that fails P.
C8_FindPrecedingResult ==
    (found # NoFind /\ found.ret # None) =>
       LET n == found.node
           P == found.pred
           r == found.ret
           K == MatchingLevels(n, P)
       IN  /\ K # {}
           /\ LET c == prev(ParentChain(n)[Min(K)])
                  ls == LastChain(c)
              IN  \E j \in DOMAIN ls :
                     /\ r = ls[j]
                     /\ \A i \in 1..j : ls[i] \in P
                     /\ j = Len(ls) \/ ls[j + 1] \notin P
           /\ r \in P
           /\ last(r) = None \/ last(r) \notin P

\* A call that found nothing beside the node, climbed to an ancestor,
\* took its previous sibling and went down to that sibling's last child,
\* whose own last child fails the predicate or is absent.
C8_Witness ==
    /\ found # NoFind
    /\ found.ret # None
    /\ Min(MatchingLevels(found.node, found.pred)) = 2
    /\ found.ret # prev(ParentChain(found.node)[Min(MatchingLevels(found.node, found.pred))])
    /\ found.ret = last(prev(parent(found.node)))

\* The slots of S in arena order.
InOrder(S) ==
    CHOOSE seq \in [1..Cardinality(S) -> S] :
        \A i, j \in 1..Cardinality(S) : i < j => seq[i] < seq[j]

RECURSIVE ChildrenRun(_, _)
\* The items Children yields from cursor links with bound lst, run to
\* exhaustion.
ChildrenRun(links, lst) ==
    LET step == Children_next(links, lst)
    IN  IF step.ret = None THEN <<>> ELSE <<step.ret>> \o ChildrenRun(step.links, lst)

\* C9: Siblings started at the first child of P and run to exhaustion has
\* yielded exactly the children of P, in order, each once, as many as
\* Children(P) yields; Children(P) only yields slots whose parent is P.
C9_SiblingsAreChildren ==
    /\ (it.kind = "siblings" /\ it.links = None /\ out # <<>>
          /\ parent(it.src) # None /\ first(parent(it.src)) = it.src) =>
          LET p == parent(it.src)
          IN  /\ out = InOrder(Kids(p))
              /\ Len(out) = Len(ChildrenRun(arena[p].first, arena[p].last))
    /\ it.kind = "children" => \A i \in DOMAIN out : parent(out[i]) = it.src

\* Siblings run to exhaustion from the first of two or more children of a
\* slot that itself has a next sibling.
C9_Witness ==
    /\ it.kind = "siblings"
    /\ it.links = None
    /\ Len(out) >= 2
    /\ parent(it.src) # None
    /\ first(parent(it.src)) = it.src
    /\ next(parent(it.src)) # None

\* The proper ancestors of n: the slots that hold n in the subtree below
\* them, found through first and next.
ProperAncestors(n) == {a \in Ids : n \in Range(PreOrder(first(a)))}

depth(n) == Cardinality(ProperAncestors(n))

\* C10: Ancestors(N) yields N first, then each successive parent; once
\* exhausted its last item has no parent and it has yielded depth(N) + 1
\* items.
C10_AncestorsToRoot ==
    it.kind = "ancestors" =>
       /\ out # <<>> => out[1] = it.src
       /\ \A i \in DOMAIN out : i > 1 => out[i] = parent(out[i - 1])
       /\ Len(out) <= depth(it.src) + 1
       /\ (it.links # None /\ out # <<>>) => it.links = parent(out[Len(out)])
       /\ (it.links = None /\ out # <<>>) =>
             /\ parent(out[Len(out)]) = None
             /\ Len(out) = depth(it.src) + 1

\* Ancestors run to exhaustion from a slot two levels below a root.
C10_Witness ==
    /\ it.kind = "ancestors"
    /\ it.links = None
    /\ Len(out) = 3
    /\ depth(it.src) = 2

\* The proper descendants of n.
ProperDescendants(n) == {d \in Ids : n \in Range(ParentChain(parent(d)))}

\* C11: N.walk() yields exactly the proper descendants of N, each once, in
\* pre-order, and never a node outside N's subtree.
C11_WalkYieldsProperDescendants ==
    it.kind = "walk" =>
       /\ Range(out) \subseteq ProperDescendants(it.src)
       /\ Len(out) = Cardinality(Range(out))
       /\ \E k \in 0..Len(PreOrder(first(it.src))) : out = SubSeq(PreOrder(first(it.src)), 1, k)
       /\ it.links = None => Range(out) = ProperDescendants(it.src)

\* A finished walk of a node that has a grandchild and a following sibling:
\* the ascent from the grandchild leaves the subtree.
C11_Witness ==
    /\ it.kind = "walk"
    /\ it.links = None
    /\ lastOp = "next"
    /\ Len(out) >= 2
    /\ parent(parent(out[Len(out)])) = it.src
    /\ next(it.src) # None

\* C12: rendering emits one line per node in pre-order from the roots,
\* indented by twice the number of proper ancestors; a leaf line ends with
\* the quoted source slice when there is one and with ` +` otherwise, and an
\* interior line has no suffix, with or without children.
C12_RenderLines ==
    pr.status = "done" =>
       /\ [i \in 1..Len(pr.lines) |-> pr.lines[i].node] = PreOrder(treeFirst)
       /\ \A i \in 1..Len(pr.lines) :
             LET l == pr.lines[i]
                 sp == span(l.node)
                 available == pr.lookup.given /\ sp.end <= Len(pr.lookup.text)
             IN  /\ l.n = 2 * depth(l.node)
                 /\ l.data = value(l.node)
                 /\ l.span = sp
                 /\ (kind(l.node) = Token /\ available) =>
                       l.suffix = <<"quoted", SubSeq(pr.lookup.text, sp.start + 1, sp.end)>>
                 /\ (kind(l.node) = Token /\ ~available) => l.suffix = <<"+">>
                 /\ IsNode(l.node) => l.suffix = <<>>

\* A finished rendering with a source, showing a quoted leaf, a ` +` leaf
\* that lies past the end of the source, an indented line, and both an
\* interior node with a child and one without.
C12_Witness ==
    /\ pr.status = "done"
    /\ pr.lookup.given
    /\ \E i, j, k, m \in 1..Len(pr.lines) :
          /\ pr.lines[i].suffix = <<"+">>
          /\ pr.lines[j].suffix # <<"+">> /\ kind(pr.lines[j].node) = Token
          /\ pr.lines[j].n = 2
          /\ IsNode(pr.lines[k].node) /\ ~is_empty(pr.lines[k].node)
          /\ IsNode(pr.lines[m].node) /\ is_empty(pr.lines[m].node)

\* C13: a close_node() or build() that fails with Unbalanced leaves every
\* slot of the arena as it was, removes none, and a failing build() returns
\* no tree.
C13_FailureKeepsArena ==
    [][(result' = "Unbalanced" /\ lastOp' \in {"close_node", "build"}) =>
          /\ Size(arena') = Size(arena)
          /\ \A i \in DOMAIN arena : arena'[i] = arena[i]
          /\ lastOp' = "build" =>
                (phase' = "building" /\ treeFirst' = None /\ treeLast' = None)]_vars

\* A build() that failed on an arena holding an open frame with a token in
\* it, after a close_node() had succeeded.
C13_Witness ==
    /\ lastOp = "build"
    /\ result = "Unbalanced"
    /\ phase = "building"
    /\ treeFirst = None
    /\ \E i, j, k \in DOMAIN arena :
          /\ parents = <<i>>
          /\ arena[j].kind = Token /\ arena[j].parent = i
          /\ arena[k].kind = Node /\ arena[k].first # None /\ k # i

\* The slots appended while no frame was open, in the order of their
\* appending.
RootLevel == InOrder({n \in Ids : arena[n].parent = None})

\* C14: token() with no frame open succeeds and appends a leaf without a
\* parent at the end of the root-level sibling chain; after build() the leaf
\* is a root, met from the tree's first root by next in the order it was
\* appended among the root-level slots.
C14_RootLevelToken ==
    /\ (lastOp = "token" /\ parents = <<>>) =>
          LET t == Size(arena) - 1
          IN  /\ result = "ok"
              /\ kind(t) = Token
              /\ parent(t) = None
              /\ next(t) = None
              /\ NextChain(0) = RootLevel
              /\ RootLevel[Len(RootLevel)] = t
    /\ Built =>
          /\ NextChain(treeFirst) = RootLevel
          /\ \A t \in Ids : (kind(t) = Token /\ arena[t].parent = None) => t \in Roots

\* A built tree whose root chain has a token between two interior roots and
\* starts with a token.
C14_Witness ==
    /\ Built
    /\ lastOp = "build"
    /\ treeFirst # None
    /\ kind(treeFirst) = Token
    /\ \E t \in Roots :
          /\ kind(t) = Token
          /\ prev(t) # None /\ IsNode(prev(t))
          /\ next(t) # None /\ IsNode(next(t))

\* The slots that share the parent of n and come before it.
EarlierSiblings(n) == {m \in Ids : arena[m].parent = arena[n].parent /\ m < n}

RECURSIVE ClaimedDescent(_, _)
\* The descent over children of either kind: from n along next to the first
\* slot whose span contains r, then on into its children.
ClaimedDescent(n, r) ==
    IF n = None
    THEN None
    ELSE IF contains(span(n), r)
         THEN IF ClaimedDescent(first(n), r) = None THEN n ELSE ClaimedDescent(first(n), r)
         ELSE ClaimedDescent(next(n), r)

RECURSIVE NextNodeRun(_)
\* The items next_node returns from a cursor, called until it returns
\* nothing.
NextNodeRun(links) ==
    LET step == Siblings_next_node(links)
    IN  IF step.ret = None THEN <<>> ELSE <<step.ret>> \o NextNodeRun(step.links)

\* C16: from any cursor, next_node() returns the first interior node at or
\* after the cursor and leaves the cursor at that node's next sibling, or
\* returns nothing and exhausts the iterator when only leaves remain;
\* called repeatedly it yields the interior siblings in order, the sequence
\* SkipTokens passes.
C16_NextNodeSkipsLeaves ==
    Built =>
       /\ \A c \in Ids \cup {None} :
             LET step == Siblings_next_node(c)
                 rest == NextChain(c)
                 nodes == {i \in 1..Len(rest) : IsNode(rest[i])}
             IN  /\ IF nodes = {}
                    THEN step.ret = None /\ step.links = None
                    ELSE step.ret = rest[Min(nodes)] /\ step.links = next(step.ret)
                 /\ NextNodeRun(c) = SelectSeq(rest, IsNode)
                 /\ NextNodeRun(c) = SkipTokensRun(c)
       /\ it.kind = "siblings.next_node" =>
             \/ it.links = None
             \/ (out # <<>> /\ IsNode(out[Len(out)]) /\ it.links = next(out[Len(out)]))

\* Two calls of next_node on siblings that start with a token: the first
\* skipped the token and returned the interior node behind it, the second
\* found only a leaf left and returned nothing.
C16_Witness ==
    /\ it.kind = "siblings.next_node"
    /\ it.src # None
    /\ lastOp = "next_node"
    /\ it.links = None
    /\ kind(it.src) = Token
    /\ Len(out) = 1
    /\ out[1] = next(it.src)
    /\ next(out[1]) # None
    /\ kind(next(out[1])) = Token

\* C17: find_preceding(P) on N returns nothing exactly when no slot of N's
\* parent chain, the root included, has a previous sibling that satisfies P.
C17_NothingIffNoMatchingLevel ==
    found # NoFind =>
       (found.ret = None <=>
           \A a \in Range(ParentChain(found.node)) :
              prev(a) = None \/ prev(a) \notin found.pred)

\* A call on a root whose previous sibling satisfies the predicate: it
\* returned a node although the root has no parent.
C17_Witness ==
    /\ found # NoFind
    /\ parent(found.node) = None
    /\ prev(found.node) # None
    /\ prev(found.node) \in found.pred
    /\ found.ret # None

\* C18: the ascent applies the predicate to at most one slot per level of
\* the parent chain, the immediate previous sibling of that level, and to no
\* sibling further back; when the immediate previous sibling fails, the
\* result is never one of the earlier siblings of the node.
C18_OneProbePerLevel ==
    found # NoFind =>
       LET n == found.node
           P == found.pred
           chain == ParentChain(n)
           probes == scan_up_probes(n, P)
       IN  /\ \A i \in DOMAIN probes : \E k \in DOMAIN chain : probes[i] = prev(chain[k])
           /\ \A k \in DOMAIN chain :
                 Cardinality({i \in DOMAIN probes :
                                arena[probes[i]].parent = arena[chain[k]].parent}) <= 1
           /\ \A i \in DOMAIN probes, k \in DOMAIN chain :
                 prev(chain[k]) # None => probes[i] \notin EarlierSiblings(prev(chain[k]))
           /\ (prev(n) # None /\ prev(n) \notin P) => found.ret \notin EarlierSiblings(n)

\* A call on a node whose immediate previous sibling fails the predicate
\* while the sibling before that one satisfies it: the ascent went on to the
\* parent and nothing was found.
C18_Witness ==
    /\ found # NoFind
    /\ prev(found.node) # None
    /\ prev(found.node) \notin found.pred
    /\ prev(prev(found.node)) # None
    /\ prev(prev(found.node)) \in found.pred
    /\ parent(found.node) # None
    /\ scan_up_probes(found.node, found.pred) = <<prev(found.node)>>
    /\ found.ret = None

\* The number of events e among the first k events of the walk.
Count(e, k) == Cardinality({i \in 1..k : pr.events[i] = e})

\* C19: while a built tree is rendered the depth counter never faults: in
\* every prefix of the event walk the Up events are at most as many as the
\* First events, the counter is their difference and stays below the number
\* of slots, and it is 0 again when the walk ends.
C19_DepthNeverFaults ==
    pr # NoPrint =>
       /\ pr.status # "panic"
       /\ \A k \in 0..Len(pr.events) : Count("Up", k) <= Count("First", k)
       /\ pr.depth = Count("First", Len(pr.events)) - Count("Up", Len(pr.events))
       /\ pr.depth <= Size(arena)
       /\ pr.depth < UsizeMax
       /\ pr.status = "done" => pr.depth = 0

\* A finished rendering whose walk went two levels down and came back up
\* twice, then on to a further root.
C19_Witness ==
    /\ pr # NoPrint
    /\ pr.status = "done"
    /\ pr.depth = 0
    /\ \E k \in 1..Len(pr.events) : Count("First", k) - Count("Up", k) = 2
    /\ Count("Up", Len(pr.events)) = 2
    /\ pr.events[Len(pr.events)] = "Next"

RECURSIVE WithDepthsRun(_, _)
\* The (depth, node) pairs WithDepths yields over a Walk at a cursor and
\* depth, run to exhaustion.
WithDepthsRun(links, d) ==
    LET step == Walk_next(links, d)
    IN  IF step.ret = None
        THEN <<>>
        ELSE <<<<step.at, step.ret>>>> \o WithDepthsRun(step.links, step.depth)

\* C20: the (depth, node) pairs the renderer derives from the event walk
\* are, in order, the pairs WithDepths yields over the walk from the tree's
\* first root.
C20_EventsMatchWithDepths ==
    (pr # NoPrint /\ pr.status = "done") =>
       [i \in 1..Len(pr.lines) |-> <<pr.lines[i].depth, pr.lines[i].node>>]
          = WithDepthsRun(treeFirst, 0)

\* A finished rendering in which a line at depth 0 follows a line at depth
\* 1: the event walk came up before it and the depth-tracking walk
\* ascended.
C20_Witness ==
    /\ pr # NoPrint
    /\ pr.status = "done"
    /\ Len(pr.lines) >= 3
    /\ \E i \in 1..(Len(pr.lines) - 1) :
          /\ pr.lines[i].depth = 1
          /\ pr.lines[i + 1].depth = 0
    /\ WithDepthsRun(treeFirst, 0)[Len(pr.lines)][2] = pr.lines[Len(pr.lines)].node

\* C21: a Siblings iterator yields its starting node first and then each
\* next sibling, never more items than there are slots; once it has
\* returned nothing, a further call returns nothing and leaves it
\* exhausted; the default instance has no cursor and yields no item.
C21_SiblingsFiniteFused ==
    [][it'.kind = "siblings" =>
          /\ Len(out') <= Size(arena')
          /\ IF it'.src = None
             THEN out' = <<>> /\ it'.links = None
             ELSE /\ out' = SubSeq(NextChain(it'.src), 1, Len(out'))
                  /\ it'.links = None <=> Len(out') = Len(NextChain(it'.src))
          /\ (it.kind = "siblings" /\ it.links = None) =>
                (out' = out /\ it'.links = None)]_vars

\* An exhausted Siblings iterator that was started on a node in the middle
\* of a sibling chain and has yielded that node and the one after it.
C21_Witness ==
    /\ it.kind = "siblings"
    /\ it.src # None
    /\ it.links = None
    /\ lastOp = "next"
    /\ prev(it.src) # None
    /\ out = <<it.src, next(it.src)>>

\* C22: the arena is append-only: open_node and token add one slot at the
\* end, close_node and build add none, no slot is removed or moved, the
\* data and kind of a slot never change, and the span of a leaf stays what
\* token() stored, which ends at the cursor token() left.
C22_ArenaAppendOnly ==
    [][/\ lastOp' \in {"open_node", "token"} => Size(arena') = Size(arena) + 1
       /\ lastOp' \in {"close_node", "build"} => Size(arena') = Size(arena)
       /\ lastOp' = "open_node" => arena'[Size(arena)].kind = Node
       /\ lastOp' = "token" =>
             (arena'[Size(arena)].kind = Token /\ arena'[Size(arena)].span.end = cursor')
       /\ \A i \in DOMAIN arena :
             /\ i \in DOMAIN arena'
             /\ arena'[i].data = arena[i].data
             /\ arena'[i].kind = arena[i].kind
             /\ arena[i].kind = Token => arena'[i].span = arena[i].span]_vars

\* A frame closed over two tokens with different spans: the close gave the
\* interior slot a new span and left the spans of the leaves.
C22_Witness ==
    /\ lastOp = "close_node"
    /\ result = "ok"
    /\ sibling # None
    /\ \E c, d \in DOMAIN arena :
          /\ c < d
          /\ arena[c].kind = Token /\ arena[c].parent = sibling
          /\ arena[d].kind = Token /\ arena[d].parent = sibling
          /\ arena[c].span # arena[d].span
          /\ arena[sibling].span.end > arena[sibling].span.start

\* C23: in every builder state and every built tree the links follow arena
\* order: parent and prev point to a smaller index, next, first and last to
\* a larger one, every present link is within bounds, no slot is on its own
\* parent chain, and the pre-order walk of the forest from slot 0 visits the
\* indices 0..N-1 in increasing order.
C23_LinksRespectArenaOrder ==
    /\ \A n \in Ids :
          /\ \A l \in {arena[n].parent, arena[n].prev, arena[n].next,
                       arena[n].first, arena[n].last} :
                l # None => node_at(l) # None
          /\ parent(n) # None => parent(n) < n
          /\ prev(n) # None => prev(n) < n
          /\ next(n) # None => next(n) > n
          /\ first(n) # None => first(n) > n
          /\ last(n) # None => last(n) > n
    /\ \A n \in Ids : n \notin Range(ParentChain(parent(n)))
    /\ PreOrder(node_at(0)) = [i \in 1..Size(arena) |-> i - 1]
    /\ Built => treeFirst = node_at(0)

\* A built tree of four slots in which a node has two children and a next
\* sibling.
C23_Witness ==
    /\ Built
    /\ Size(arena) = 4
    /\ \E n \in Ids :
          /\ first(n) # None
          /\ last(n) # first(n)
          /\ next(n) # None
          /\ parent(last(n)) = n

\* The place of slot n in the pre-order of the forest.
Position(n) == CHOOSE i \in DOMAIN PreOrder(treeFirst) : PreOrder(treeFirst)[i] = n

\* C24: a node returned by find_preceding on N is not N, not an ancestor of
\* N and not a descendant of N; it is a previous sibling of a slot of N's
\* parent chain or lies below one, and comes before N in pre-order.
C24_ResultPrecedesNode ==
    (found # NoFind /\ found.ret # None) =>
       LET n == found.node
           r == found.ret
       IN  /\ r # n
           /\ r \notin Range(ParentChain(n))
           /\ r \notin ProperDescendants(n)
           /\ \E a \in Range(ParentChain(n)) :
                 \E s \in EarlierSiblings(a) :
                    r = s \/ r \in ProperDescendants(s)
           /\ Position(r) < Position(n)

\* A call on a root that has a child of its own: the node returned is the
\* last child of the root before it.
C24_Witness ==
    /\ found # NoFind
    /\ found.ret # None
    /\ parent(found.node) = None
    /\ first(found.node) # None
    /\ parent(found.ret) = prev(found.node)
====
